---------------------------- MODULE Spec2Model ----------------------------
(***************************************************************************)
(* astrobject/instruments/catalogues.py: the four Vizier fetchers and the  *)
(* survey catalogue classes (GAIACatalogue, SDSSCatalogue, MASSCatalogue,  *)
(* WISECatalogue).                                                         *)
(*                                                                         *)
(* A Python string is a sequence of one-character strings wrapped by Str;  *)
(* None is a value of the same shape, so that "key_mag is None", the       *)
(* substring test '"G" in key_mag', key_mag[0] and "%smag" % band are      *)
(* computed as the code computes them.                                     *)
(***************************************************************************)
EXTENDS Integers, Sequences, FiniteSets, TLC

VARIABLES
    astroquery,   \* whether "from astroquery import vizier" succeeds
    cats,         \* the catalogue objects held by the caller, by slot
    last          \* the last call: its name, arguments, outcome, output

vars == <<astroquery, cats, last>>

\* Largest number of rows of a table the remote service returns.
MaxRows == 2

(***************************************************************************)
(* Python values                                                           *)
(***************************************************************************)
None == [none |-> TRUE, s |-> <<>>]

Str(chars) == [none |-> FALSE, s |-> chars]

\* "x in s" for a one-character x
Contains(s, ch) == \E i \in 1..Len(s) : s[i] = ch

\* "%smag" % band
FmtMag(band) == Str(band \o <<"m", "a", "g">>)

\* "e_%smag" % band
FmtMagErr(band) == Str(<<"e", "_">> \o band \o <<"m", "a", "g">>)

\* "sdss%s" % ch
FmtSdss(ch) == Str(<<"s", "d", "s", "s", ch>>)

Jmag == FmtMag(<<"J">>)

Hmag == FmtMag(<<"H">>)

Kmag == FmtMag(<<"K">>)

W1mag == FmtMag(<<"W", "1">>)

rmag == FmtMag(<<"r">>)

GaiaG == Str(<<"_", "_", "G", "m", "a", "g", "_">>)

GaiaGerr == Str(<<"_", "_", "e", "_", "G", "m", "a", "g", "_">>)

RAJ2000 == Str(<<"R", "A", "J", "2", "0", "0", "0">>)

DEJ2000 == Str(<<"D", "E", "J", "2", "0", "0", "0">>)

RA_ICRS == Str(<<"R", "A", "_", "I", "C", "R", "S">>)

DE_ICRS == Str(<<"D", "E", "_", "I", "C", "R", "S">>)

\* value_star: None or a number
NoValue == [none |-> TRUE, v |-> 0]

Value(n) == [none |-> FALSE, v |-> n]

\* the value of lbda: an attribute not yet assigned, a number, or a string
NoLbda == [kind |-> "unset", v |-> 0, s |-> <<>>]

NumLbda(n) == [kind |-> "num", v |-> n, s |-> <<>>]

\* bandpass.wave_eff of the sncosmo bandpass of that name
WaveEff(name) == [kind |-> "wave_eff", v |-> 0, s |-> name.s]

ToBeDefined == [kind |-> "str", v |-> 0, s |-> <<"TO BE DEFINED">>]

(***************************************************************************)
(* Catalogue (the base class, astrobject/instruments/baseinstrument.py)    *)
(***************************************************************************)
Classes == {"GAIA", "SDSS", "MASS", "WISE"}

\* __build__: the key mappings are stored, no data, lbda not assigned
Catalogue_build(cls, key_mag, key_magerr, key_id, key_ra, key_dec) ==
    [cls |-> cls, key_mag |-> key_mag, key_magerr |-> key_magerr,
     key_id |-> key_id, key_ra |-> key_ra, key_dec |-> key_dec,
     key_class |-> None, value_star |-> NoValue,
     lbda |-> NoLbda, has_data |-> FALSE, fovmask |-> <<>>]

\* Catalogue.set_mag_keys: stores the two keys
Catalogue_set_mag_keys(c, key_mag, key_magerr) ==
    [c EXCEPT !.key_mag = key_mag, !.key_magerr = key_magerr]

\* Catalogue._is_keymag_set_
Catalogue_is_keymag_set(c) == ~c.key_mag.none /\ ~c.key_magerr.none

\* Catalogue.create(data, wcs, **build): stores the table and the build keys
\* given; every row is in the field of view until one is set
Catalogue_create(c, nrows, build) ==
    [k \in DOMAIN c |->
        IF k \in DOMAIN build THEN build[k]
        ELSE IF k = "has_data" THEN TRUE
        ELSE IF k = "fovmask" THEN [i \in 1..nrows |-> TRUE]
        ELSE c[k]]

\* Catalogue.nobjects: the number of rows of the data
nobjects(c) == Len(c.fovmask)

\* Catalogue.nobjects_in_fov: the number of rows inside the field of view
nobjects_in_fov(c) == Cardinality({i \in 1..Len(c.fovmask) : c.fovmask[i]})

RECURSIVE InFov(_, _)
\* the indices of the rows inside the field of view, in order, from row i on
InFov(c, i) ==
    IF i > Len(c.fovmask) THEN <<>>
    ELSE (IF c.fovmask[i] THEN <<i>> ELSE <<>>) \o InFov(c, i + 1)

\* Catalogue.mag: the magnitudes of the rows in the field of view
Catalogue_mag(c) ==
    IF ~Catalogue_is_keymag_set(c) THEN [exc |-> "NoMagKey", ret |-> <<>>]
    ELSE IF ~c.has_data THEN [exc |-> "NoData", ret |-> <<>>]
    ELSE [exc |-> "", ret |-> InFov(c, 1)]

(***************************************************************************)
(* A method's outcome: the object after the call, the exception raised     *)
(* ("" when none), what was printed, and the value returned.               *)
(***************************************************************************)
Outcome(c, exc, out, ret) == [cat |-> c, exc |-> exc, out |-> out, ret |-> ret]

(***************************************************************************)
(* GAIACatalogue                                                           *)
(***************************************************************************)
\* GAIACatalogue(empty=True, key_mag, key_magerr, key_ra, key_dec)
GAIACatalogue(key_mag, key_magerr, key_ra, key_dec) ==
    Outcome(Catalogue_build("GAIA", key_mag, key_magerr,
                            Str(<<"S", "o", "u", "r", "c", "e">>), key_ra, key_dec),
            "", "", <<>>)

\* GAIA_set_mag_keys deriving lbda only once data is held
GAIA_set_mag_keys_needs_data(c, key_mag, key_magerr) ==
    LET c1 == Catalogue_set_mag_keys(c, key_mag, key_magerr) IN
    IF key_mag.none THEN Outcome(c1, "TypeError", "", <<>>)
    ELSE IF Contains(key_mag.s, "G") /\ c.has_data
         THEN Outcome([c1 EXCEPT !.lbda = NumLbda(6730)], "", "", <<>>)
         ELSE Outcome(c1, "", "", <<>>)

GAIA_set_mag_keys(c, key_mag, key_magerr) ==
    LET c1 == Catalogue_set_mag_keys(c, key_mag, key_magerr) IN
    IF key_mag.none THEN Outcome(c1, "TypeError", "", <<>>)
    ELSE IF Contains(key_mag.s, "G")
         THEN Outcome([c1 EXCEPT !.lbda = NumLbda(6730)], "", "", <<>>)
         ELSE Outcome(c1, "", "", <<>>)

(***************************************************************************)
(* SDSSCatalogue                                                           *)
(***************************************************************************)
SDSSCatalogue(key_mag, key_magerr, key_ra, key_dec) ==
    Outcome(Catalogue_build("SDSS", key_mag, key_magerr,
                            Str(<<"o", "b", "j", "I", "D">>), key_ra, key_dec),
            "", "", <<>>)

\* sncosmo.get_bandpass(name): the registered SDSS bandpasses
BandpassRegistry == {FmtSdss(b) : b \in {"u", "g", "r", "i", "z"}}

SDSS_set_mag_keys(c, key_mag, key_magerr) ==
    LET c1 == Catalogue_set_mag_keys(c, key_mag, key_magerr) IN
    IF key_mag.none THEN Outcome(c1, "", "", <<>>)
    ELSE IF Len(key_mag.s) = 0 THEN Outcome(c1, "IndexError", "", <<>>)
    ELSE LET name == FmtSdss(key_mag.s[1]) IN
         IF name \in BandpassRegistry
         THEN Outcome([c1 EXCEPT !.lbda = WaveEff(name)], "", "", <<>>)
         ELSE Outcome(c1, "Exception", "", <<>>)

(***************************************************************************)
(* MASSCatalogue                                                           *)
(***************************************************************************)
MASSCatalogue(key_mag, key_magerr, key_ra, key_dec) ==
    Outcome(Catalogue_build("MASS", key_mag, key_magerr, None, key_ra, key_dec),
            "", "", <<>>)

\* MASS_set_mag_keys with the wavelengths of H and K exchanged
MASS_set_mag_keys_swapped(c, key_mag, key_magerr) ==
    LET c1 == Catalogue_set_mag_keys(c, key_mag, key_magerr) IN
    IF key_mag.none THEN Outcome(c1, "", "", <<>>)
    ELSE IF key_mag = Jmag
         THEN Outcome([c1 EXCEPT !.lbda = NumLbda(12350)], "", "", <<>>)
    ELSE IF key_mag = Hmag
         THEN Outcome([c1 EXCEPT !.lbda = NumLbda(21590)], "", "", <<>>)
    ELSE IF key_mag = Kmag
         THEN Outcome([c1 EXCEPT !.lbda = NumLbda(16620)], "", "", <<>>)
    ELSE Outcome(c1, "ValueError", "", <<>>)

MASS_set_mag_keys(c, key_mag, key_magerr) ==
    LET c1 == Catalogue_set_mag_keys(c, key_mag, key_magerr) IN
    IF key_mag.none THEN Outcome(c1, "", "", <<>>)
    ELSE IF key_mag = Jmag
         THEN Outcome([c1 EXCEPT !.lbda = NumLbda(12350)], "", "", <<>>)
    ELSE IF key_mag = Hmag
         THEN Outcome([c1 EXCEPT !.lbda = NumLbda(16620)], "", "", <<>>)
    ELSE IF key_mag = Kmag
         THEN Outcome([c1 EXCEPT !.lbda = NumLbda(21590)], "", "", <<>>)
    ELSE Outcome(c1, "ValueError", "", <<>>)

\* MASS_mag without the test of _is_keymag_set_: J is always applied
MASS_mag_always_default(c) ==
    LET r == Catalogue_set_mag_keys(c, Jmag, FmtMagErr(<<"J">>))
        m == Catalogue_mag(r)
    IN  Outcome([r EXCEPT !.lbda = NumLbda(12350)], m.exc, "", m.ret)

MASS_mag(c) ==
    LET unset == ~Catalogue_is_keymag_set(c)
        r == IF unset THEN MASS_set_mag_keys(c, Jmag, FmtMagErr(<<"J">>))
             ELSE Outcome(c, "", "", <<>>)
        out == IF unset THEN "No 'key_mag' defined. J band used by default."
               ELSE ""
    IN  IF r.exc # "" THEN Outcome(r.cat, r.exc, out, <<>>)
        ELSE LET m == Catalogue_mag(r.cat) IN Outcome(r.cat, m.exc, out, m.ret)

\* np.ones(self.nobjects)
MASS_objecttype(c) ==
    Outcome(c, "", "All Loaded data are %s", [i \in 1..nobjects(c) |-> 1])

\* np.ones(self.nobjects_in_fov, dtype="bool")
MASS_starmask(c) ==
    Outcome(c, "", "", [i \in 1..nobjects_in_fov(c) |-> TRUE])

(***************************************************************************)
(* WISECatalogue                                                           *)
(***************************************************************************)
WISECatalogue(key_mag, key_magerr, key_ra, key_dec) ==
    Outcome(Catalogue_build("WISE", key_mag, key_magerr, None, key_ra, key_dec),
            "", "STAR vs. GALAXY PARSING NOT READY YET", <<>>)

WISE_set_mag_keys(c, key_mag, key_magerr) ==
    LET c1 == Catalogue_set_mag_keys(c, key_mag, key_magerr) IN
    IF key_mag.none THEN Outcome(c1, "", "", <<>>)
    ELSE Outcome([c1 EXCEPT !.lbda = ToBeDefined], "", "", <<>>)

\* WISE_mag warning without applying the default keys
WISE_mag_no_default(c) ==
    LET unset == ~Catalogue_is_keymag_set(c)
        out == IF unset THEN "No 'key_mag' defined. W1 band used by default."
               ELSE ""
        m == Catalogue_mag(c)
    IN  Outcome(c, m.exc, out, m.ret)

WISE_mag(c) ==
    LET unset == ~Catalogue_is_keymag_set(c)
        r == IF unset THEN WISE_set_mag_keys(c, W1mag, FmtMagErr(<<"W", "1">>))
             ELSE Outcome(c, "", "", <<>>)
        out == IF unset THEN "No 'key_mag' defined. W1 band used by default."
               ELSE ""
    IN  IF r.exc # "" THEN Outcome(r.cat, r.exc, out, <<>>)
        ELSE LET m == Catalogue_mag(r.cat) IN Outcome(r.cat, m.exc, out, m.ret)

(***************************************************************************)
(* Dispatch on the class of the object                                     *)
(***************************************************************************)
new(cls, key_mag, key_magerr, key_ra, key_dec) ==
    CASE cls = "GAIA" -> GAIACatalogue(key_mag, key_magerr, key_ra, key_dec)
      [] cls = "SDSS" -> SDSSCatalogue(key_mag, key_magerr, key_ra, key_dec)
      [] cls = "MASS" -> MASSCatalogue(key_mag, key_magerr, key_ra, key_dec)
      [] cls = "WISE" -> WISECatalogue(key_mag, key_magerr, key_ra, key_dec)

set_mag_keys(c, key_mag, key_magerr) ==
    CASE c.cls = "GAIA" -> GAIA_set_mag_keys(c, key_mag, key_magerr)
      [] c.cls = "SDSS" -> SDSS_set_mag_keys(c, key_mag, key_magerr)
      [] c.cls = "MASS" -> MASS_set_mag_keys(c, key_mag, key_magerr)
      [] c.cls = "WISE" -> WISE_set_mag_keys(c, key_mag, key_magerr)

mag(c) ==
    CASE c.cls = "MASS" -> MASS_mag(c)
      [] c.cls = "WISE" -> WISE_mag(c)
      [] OTHER -> LET m == Catalogue_mag(c) IN Outcome(c, m.exc, "", m.ret)

(***************************************************************************)
(* The fetchers.  importable: whether astroquery can be imported.          *)
(* remote: what the Vizier service does with the region query: it answers  *)
(* with a first table of nrows rows ("ok"), the query raises ("raises"),   *)
(* or it answers with no table, so that .values()[0] raises ("empty").     *)
(* A fetcher's result: the exception raised ("" when none), its message,   *)
(* the calls made on astroquery (net), and the catalogue returned.         *)
(***************************************************************************)
Remotes ==
    {[kind |-> "ok", nrows |-> n] : n \in 0..MaxRows}
        \cup {[kind |-> "raises", nrows |-> 0], [kind |-> "empty", nrows |-> 0]}

InstallHint == "install astroquery. (pip install astroquery)"

QueryError ==
    "Error while querying the given coords. You might not have an internet connection"

Raised(exc, msg, net) ==
    [exc |-> exc, msg |-> msg, net |-> net, returned |-> FALSE, cat |-> <<>>]

Returned(net, c) ==
    [exc |-> "", msg |-> "", net |-> net, returned |-> TRUE, cat |-> c]

\* utils.tools.kwargs_update(d, **kw): d updated with kw
kwargs_update(d, kw) ==
    [k \in DOMAIN d \cup DOMAIN kw |-> IF k \in DOMAIN kw THEN kw[k] ELSE d[k]]

\* vizier.Vizier(catalog=, columns=, column_filters=) and c.ROW_LIMIT = limit
Vizier(catalog, columns, column_filters, limit) ==
    [call |-> "Vizier", catalog |-> catalog, columns |-> columns,
     column_filters |-> column_filters, ROW_LIMIT |-> limit]

\* c.query_region(center, radius=radius)
query_region(center, radius) ==
    [call |-> "query_region", center |-> center, radius |-> radius]

\* the exception c.query_region(center, radius=radius).values()[0] ends with
QueryFailure(remote) ==
    CASE remote.kind = "raises" -> "ConnectionError"
      [] remote.kind = "empty" -> "IndexError"
      [] OTHER -> ""

\* the keyword arguments of cat.create(t.columns, None, ...) for each survey
BuildKeys(cls) ==
    CASE cls = "GAIA" -> [key_ra |-> RA_ICRS, key_dec |-> DE_ICRS]
      [] cls = "SDSS" -> [key_class |-> Str(<<"c", "l">>), value_star |-> Value(6),
                          key_id |-> Str(<<"o", "b", "j", "I", "D">>),
                          key_ra |-> RAJ2000, key_dec |-> DEJ2000]
      [] cls = "MASS" -> [key_class |-> Str(<<"P", "o", "i", "n", "t", "S", "o", "u", "r", "c", "e">>),
                          value_star |-> NoValue,
                          key_ra |-> RAJ2000, key_dec |-> DEJ2000]
      [] cls = "WISE" -> [key_class |-> Str(<<"T", "o", "B", "e", "D", "o", "n", "e">>),
                          value_star |-> NoValue,
                          key_ra |-> RAJ2000, key_dec |-> DEJ2000]

fetch_gaia_catalogue(center, radius, extracolumns, column_filters, importable, remote) ==
    IF ~importable THEN Raised("ImportError", InstallHint, <<>>)
    ELSE
    LET columns == << RA_ICRS, DE_ICRS,
                      Str(<<"e", "_", "R", "A", "_", "I", "C", "R", "S">>),
                      Str(<<"e", "_", "D", "E", "_", "I", "C", "R", "S">>),
                      Str(<<"S", "o", "u", "r", "c", "e">>), Str(<<"D", "u", "p">>),
                      Str(<<"o", "_", "<", "G", "m", "a", "g", ">">>),
                      Str(<<"<", "F", "G", ">">>), Str(<<"e", "_", "<", "F", "G", ">">>),
                      Str(<<"<", "G", "m", "a", "g", ">">>), Str(<<"V", "a", "r">>) >>
                   \o extracolumns
        column_quality == <<>>
        c == Vizier("I/337/gaia", columns,
                    kwargs_update(column_quality, column_filters), "unlimited")
        net == <<c, query_region(center, radius)>>
    IN  IF QueryFailure(remote) # "" THEN Raised(QueryFailure(remote), "", net)
        ELSE LET cat == GAIACatalogue(GaiaG, GaiaGerr, None, None).cat IN
             Returned(net, Catalogue_create(cat, remote.nrows, BuildKeys("GAIA")))

\* sdss.SDSS_INFO["bands"]
SDSS_INFO_bands == << <<"u">>, <<"g">>, <<"r">>, <<"i">>, <<"z">> >>

RECURSIVE BandColumns(_)
\* for band in bands: columns.append("%smag"%band); columns.append("e_%smag"%band)
BandColumns(bands) ==
    IF bands = <<>> THEN <<>>
    ELSE <<FmtMag(Head(bands)), FmtMagErr(Head(bands))>> \o BandColumns(Tail(bands))

\* fetch_sdss_catalogue with the commented-out try/except around the query
fetch_sdss_wrapping(center, radius, extracolumns, column_filters, importable, remote) ==
    IF ~importable THEN Raised("ImportError", InstallHint, <<>>)
    ELSE IF QueryFailure(remote) # "" THEN Raised("IOError", QueryError, <<>>)
    ELSE Returned(<<>>, Catalogue_create(SDSSCatalogue(None, None, None, None).cat,
                                         remote.nrows, BuildKeys("SDSS")))

fetch_sdss_catalogue(center, radius, extracolumns, column_filters, importable, remote) ==
    IF ~importable THEN Raised("ImportError", InstallHint, <<>>)
    ELSE
    LET columns == << Str(<<"c", "l">>), Str(<<"o", "b", "j", "I", "D">>),
                      RAJ2000, Str(<<"e", "_">> \o RAJ2000.s),
                      DEJ2000, Str(<<"e", "_">> \o DEJ2000.s) >>
                   \o BandColumns(SDSS_INFO_bands) \o extracolumns
        column_quality == [mode |-> "1", Q |-> "2.3"]
        c == Vizier("V/139", columns,
                    kwargs_update(column_quality, column_filters), "unlimited")
        net == <<c, query_region(center, radius)>>
    IN  IF QueryFailure(remote) # "" THEN Raised(QueryFailure(remote), "", net)
        ELSE LET cat == SDSSCatalogue(None, None, None, None).cat IN
             Returned(net, Catalogue_create(cat, remote.nrows, BuildKeys("SDSS")))

\* fetch_2mass_catalogue with the import made inside the try of the query
fetch_2mass_import_in_try(center, radius, extracolumns, column_filters, importable, remote) ==
    IF ~importable \/ QueryFailure(remote) # "" THEN Raised("IOError", QueryError, <<>>)
    ELSE Returned(<<>>, Catalogue_create(MASSCatalogue(None, None, None, None).cat,
                                         remote.nrows, BuildKeys("MASS")))

fetch_2mass_catalogue(center, radius, extracolumns, column_filters, importable, remote) ==
    IF ~importable THEN Raised("ImportError", InstallHint, <<>>)
    ELSE
    LET columns == << Str(<<"2", "M", "A", "S", "S">>), RAJ2000, DEJ2000 >>
                   \o BandColumns(<< <<"J">>, <<"H">>, <<"K">> >>) \o extracolumns
        c == Vizier("II/246", columns, column_filters, "100000")
        net == <<c, query_region(center, radius)>>
    IN  IF QueryFailure(remote) # "" THEN Raised("IOError", QueryError, net)
        ELSE LET cat == MASSCatalogue(None, None, None, None).cat IN
             Returned(net, Catalogue_create(cat, remote.nrows, BuildKeys("MASS")))

\* The signature has no **kwargs, and the body passes **kwargs to
\* vizier.Vizier: evaluating the call's arguments raises NameError, before
\* the client is built.
fetch_wise_catalogue(center, radius, extracolumns, column_filters, importable, remote) ==
    IF ~importable THEN Raised("ImportError", InstallHint, <<>>)
    ELSE
    LET columns == << Str(<<"A", "l", "l", "W", "I", "S", "E">>), Str(<<"I", "D">>),
                      RAJ2000, DEJ2000 >>
                   \o BandColumns(<< <<"J">>, <<"H">>, <<"K">>, <<"W", "1">>,
                                     <<"W", "2">>, <<"W", "3">>, <<"W", "4">> >>)
                   \o extracolumns
    IN  Raised("NameError", "global name 'kwargs' is not defined", <<>>)

(***************************************************************************)
(* The state machine: a caller holding catalogue objects and calling the   *)
(* fetchers and the methods on them.                                       *)
(***************************************************************************)
\* the magnitude keys a caller passes: (key_mag, key_magerr)
KeyPairs ==
    { <<None, None>>,
      <<Jmag, FmtMagErr(<<"J">>)>>, <<Hmag, FmtMagErr(<<"H">>)>>,
      <<Kmag, FmtMagErr(<<"K">>)>>, <<Hmag, None>>,
      <<W1mag, FmtMagErr(<<"W", "1">>)>>, <<rmag, FmtMagErr(<<"r">>)>>,
      <<GaiaG, GaiaGerr>> }

\* the default (key_mag, key_magerr) of each constructor
DefaultKeys(cls) == IF cls = "GAIA" THEN <<GaiaG, GaiaGerr>> ELSE <<None, None>>

Centers == {"10.0 20.0"}

Radii == {"1d", "10m"}

ExtraColumns == {<<>>, <<Str(<<"Q", "f", "l", "g">>)>>}

\* the default column_filters of each fetcher, or none
ColumnFilters(default) == {default, <<>>}

FieldMasks(n) == [1..n -> BOOLEAN]

NoCall ==
    [op |-> "init", obj |-> 0, key_mag |-> None, key_magerr |-> None,
     exc |-> "", msg |-> "", out |-> "", ret |-> <<>>, net |-> <<>>,
     remote |-> ""]

Init ==
    /\ astroquery \in BOOLEAN
    /\ \E cls \in Classes :
          cats = [o \in {1} |->
                    new(cls, DefaultKeys(cls)[1], DefaultKeys(cls)[2], None, None).cat]
    /\ last = NoCall

\* cats[o] = XCatalogue(empty=True, key_mag=, key_magerr=)
Construct(o) ==
    \E cls \in Classes, kp \in KeyPairs :
        LET r == new(cls, kp[1], kp[2], None, None) IN
        /\ cats' = [cats EXCEPT ![o] = r.cat]
        /\ last' = [NoCall EXCEPT !.op = "new", !.obj = o, !.key_mag = kp[1],
                                   !.key_magerr = kp[2], !.out = r.out]
        /\ UNCHANGED astroquery

\* cats[o].create(table, None, **build) on a catalogue built empty
Create(o) ==
    /\ ~cats[o].has_data
    /\ \E n \in 0..MaxRows :
          cats' = [cats EXCEPT ![o] = Catalogue_create(@, n, BuildKeys(@.cls))]
    /\ last' = [NoCall EXCEPT !.op = "create", !.obj = o]
    /\ UNCHANGED astroquery

\* a field of view is set on cats[o]: each row is inside it or not
SetFov(o) ==
    /\ cats[o].has_data
    /\ \E m \in FieldMasks(nobjects(cats[o])) :
          cats' = [cats EXCEPT ![o].fovmask = m]
    /\ last' = [NoCall EXCEPT !.op = "set_fov", !.obj = o]
    /\ UNCHANGED astroquery

\* cats[o].set_mag_keys(key_mag, key_magerr)
SetMagKeys(o) ==
    \E kp \in KeyPairs :
        LET r == set_mag_keys(cats[o], kp[1], kp[2]) IN
        /\ cats' = [cats EXCEPT ![o] = r.cat]
        /\ last' = [NoCall EXCEPT !.op = "set_mag_keys", !.obj = o,
                                   !.key_mag = kp[1], !.key_magerr = kp[2],
                                   !.exc = r.exc, !.out = r.out]
        /\ UNCHANGED astroquery

\* cats[o].mag
ReadMag(o) ==
    LET r == mag(cats[o]) IN
    /\ cats' = [cats EXCEPT ![o] = r.cat]
    /\ last' = [NoCall EXCEPT !.op = "mag", !.obj = o, !.exc = r.exc,
                               !.out = r.out, !.ret = r.ret]
    /\ UNCHANGED astroquery

\* cats[o].starmask, of a MASSCatalogue holding data
ReadStarmask(o) ==
    /\ cats[o].cls = "MASS" /\ cats[o].has_data
    /\ LET r == MASS_starmask(cats[o]) IN
       /\ cats' = [cats EXCEPT ![o] = r.cat]
       /\ last' = [NoCall EXCEPT !.op = "starmask", !.obj = o, !.exc = r.exc,
                                  !.out = r.out, !.ret = r.ret]
    /\ UNCHANGED astroquery

\* cats[o]._objecttype, of a MASSCatalogue holding data
ReadObjecttype(o) ==
    /\ cats[o].cls = "MASS" /\ cats[o].has_data
    /\ LET r == MASS_objecttype(cats[o]) IN
       /\ cats' = [cats EXCEPT ![o] = r.cat]
       /\ last' = [NoCall EXCEPT !.op = "_objecttype", !.obj = o, !.exc = r.exc,
                                  !.out = r.out, !.ret = r.ret]
    /\ UNCHANGED astroquery

\* cats[o] = fetch(...): the slot is assigned when the fetcher returns
Fetched(o, name, remote, r) ==
    /\ cats' = IF r.returned THEN [cats EXCEPT ![o] = r.cat] ELSE cats
    /\ last' = [NoCall EXCEPT !.op = name, !.obj = o, !.exc = r.exc,
                               !.msg = r.msg, !.net = r.net,
                               !.remote = remote.kind,
                               !.ret = IF r.returned THEN <<r.cat>> ELSE <<>>]
    /\ UNCHANGED astroquery

FetchGaia(o) ==
    \E ce \in Centers, ra \in Radii, ex \in ExtraColumns,
       cf \in ColumnFilters(<<>>), remote \in Remotes :
        Fetched(o, "fetch_gaia_catalogue", remote,
                fetch_gaia_catalogue(ce, ra, ex, cf, astroquery, remote))

FetchSdss(o) ==
    \E ce \in Centers, ra \in Radii, ex \in ExtraColumns,
       cf \in ColumnFilters([rmag |-> "5..25"]), remote \in Remotes :
        Fetched(o, "fetch_sdss_catalogue", remote,
                fetch_sdss_catalogue(ce, ra, ex, cf, astroquery, remote))

Fetch2mass(o) ==
    \E ce \in Centers, ra \in Radii, ex \in ExtraColumns,
       cf \in ColumnFilters([Jmag |-> "5..30"]), remote \in Remotes :
        Fetched(o, "fetch_2mass_catalogue", remote,
                fetch_2mass_catalogue(ce, ra, ex, cf, astroquery, remote))

FetchWise(o) ==
    \E ce \in Centers, ra \in Radii, ex \in ExtraColumns,
       cf \in ColumnFilters([Jmag |-> "5..30"]), remote \in Remotes :
        Fetched(o, "fetch_wise_catalogue", remote,
                fetch_wise_catalogue(ce, ra, ex, cf, astroquery, remote))

\* the methods of the catalogue objects
NextCat ==
    \/ \E o \in DOMAIN cats : Construct(o)
    \/ \E o \in DOMAIN cats : Create(o)
    \/ \E o \in DOMAIN cats : SetFov(o)
    \/ \E o \in DOMAIN cats : SetMagKeys(o)
    \/ \E o \in DOMAIN cats : ReadMag(o)
    \/ \E o \in DOMAIN cats : ReadStarmask(o)
    \/ \E o \in DOMAIN cats : ReadObjecttype(o)

\* the fetchers
NextFetch ==
    \/ \E o \in DOMAIN cats : FetchGaia(o)
    \/ \E o \in DOMAIN cats : FetchSdss(o)
    \/ \E o \in DOMAIN cats : Fetch2mass(o)
    \/ \E o \in DOMAIN cats : FetchWise(o)

Next == NextCat \/ NextFetch

Spec == Init /\ [][Next]_vars

\* a caller that only calls methods of the catalogue it holds
SpecCat == Init /\ [][NextCat]_vars

\* a caller that only fetches
SpecFetch == Init /\ [][NextFetch]_vars

(***************************************************************************)
(* Two catalogues of one class, built with the same arguments.  On the     *)
(* first the magnitude keys are set and then the data created; on the      *)
(* second the data is created and then the magnitude keys are set.         *)
(***************************************************************************)
InitOrder ==
    /\ astroquery \in BOOLEAN
    /\ \E cls \in Classes : \E kp \in {DefaultKeys(cls), <<None, None>>} :
          cats = [o \in {1, 2} |-> new(cls, kp[1], kp[2], None, None).cat]
    /\ last = NoCall

NextOrder ==
    \/ last.op = "init" /\ SetMagKeys(1)
    \/ last.op = "set_mag_keys" /\ last.obj = 1 /\ last.exc = "" /\ Create(1)
    \/ last.op = "create" /\ last.obj = 1 /\ Create(2)
    \/ last.op = "create" /\ last.obj = 2 /\ SetMagKeys(2)

SpecOrder == InitOrder /\ [][NextOrder]_vars

(***************************************************************************)
(* The fetchers                                                            *)
(***************************************************************************)
Fetchers ==
    {"fetch_gaia_catalogue", "fetch_sdss_catalogue",
     "fetch_2mass_catalogue", "fetch_wise_catalogue"}

\* C1: when astroquery cannot be imported, each of the four fetchers ends by
\* raising ImportError with the install hint, having built no Vizier client
\* and issued no region query, and returns no catalogue.
C1_ImportErrorFirst ==
    (last.op \in Fetchers /\ ~astroquery) =>
        /\ last.exc = "ImportError"
        /\ last.msg = InstallHint
        /\ Len(last.net) = 0
        /\ Len(last.ret) = 0

C1_Witness ==
    /\ ~astroquery
    /\ last.op = "fetch_2mass_catalogue"
    /\ last.exc = "ImportError"

\* C2: with astroquery available, a failing region query (it raises, or it
\* returns no table) ends fetch_2mass_catalogue with IOError, and ends
\* fetch_gaia_catalogue and fetch_sdss_catalogue with the underlying
\* exception; no catalogue is returned.
C2_QueryFailure ==
    (astroquery /\ last.remote \in {"raises", "empty"}) =>
        /\ last.op = "fetch_2mass_catalogue" => last.exc = "IOError"
        /\ last.op \in {"fetch_gaia_catalogue", "fetch_sdss_catalogue"} =>
              last.exc = (IF last.remote = "raises" THEN "ConnectionError"
                          ELSE "IndexError")
        /\ last.op \in {"fetch_2mass_catalogue", "fetch_gaia_catalogue",
                        "fetch_sdss_catalogue"} => Len(last.ret) = 0

C2_Witness ==
    /\ astroquery
    /\ last.op = "fetch_2mass_catalogue"
    /\ last.remote = "empty"
    /\ last.exc = "IOError"
    /\ Len(last.net) = 2

\* C3: with astroquery available, fetch_wise_catalogue always reaches the
\* region query; it returns a WISECatalogue made from the first table with
\* key_ra "RAJ2000" and key_dec "DEJ2000" when the query succeeds, and
\* raises IOError when the query fails.
C3_WiseFetches ==
    (astroquery /\ last.op = "fetch_wise_catalogue") =>
        /\ Len(last.net) = 2
        /\ last.remote = "ok" =>
              /\ last.exc = ""
              /\ Len(last.ret) = 1
              /\ last.ret[1].cls = "WISE"
              /\ last.ret[1].key_ra = RAJ2000
              /\ last.ret[1].key_dec = DEJ2000
        /\ last.remote # "ok" => last.exc = "IOError"

(***************************************************************************)
(* The catalogue classes                                                   *)
(***************************************************************************)
\* the step is the call op on cats[o]
Called(o, op) == last'.op = op /\ last'.obj = o

Schema(c) ==
    <<c.key_mag, c.key_magerr, c.key_ra, c.key_dec, c.key_class, c.key_id, c.lbda>>

\* C4: MASSCatalogue.set_mag_keys derives lbda from the band alone: Jmag
\* gives 12350, Hmag 16620, Kmag 21590; any other key_mag that is not None
\* raises ValueError; key_mag None raises nothing and assigns no lbda.
C4_MassLbdaFromBand ==
    [][\A o \in DOMAIN cats :
          (Called(o, "set_mag_keys") /\ cats[o].cls = "MASS") =>
              LET k == last'.key_mag IN
              /\ k = Jmag => last'.exc = "" /\ cats'[o].lbda = NumLbda(12350)
              /\ k = Hmag => last'.exc = "" /\ cats'[o].lbda = NumLbda(16620)
              /\ k = Kmag => last'.exc = "" /\ cats'[o].lbda = NumLbda(21590)
              /\ (~k.none /\ k \notin {Jmag, Hmag, Kmag}) => last'.exc = "ValueError"
              /\ k.none => last'.exc = "" /\ cats'[o].lbda = cats[o].lbda]_vars

C4_Witness ==
    /\ last.op = "set_mag_keys" /\ last.key_mag = Kmag
    /\ cats[1].cls = "MASS" /\ cats[1].has_data
    /\ cats[1].lbda = NumLbda(21590)

\* C5: reading mag of a MASSCatalogue (WISECatalogue) whose magnitude key is
\* unset prints a warning and sets the keys to Jmag, e_Jmag (W1mag, e_W1mag);
\* when the key is set the read changes neither the keys nor lbda; after the
\* read the key is set, and the read does not raise for a missing key.
C5_MagDefaultsBand ==
    [][\A o \in DOMAIN cats :
          (Called(o, "mag") /\ cats[o].cls \in {"MASS", "WISE"}) =>
              LET band == IF cats[o].cls = "MASS" THEN <<"J">> ELSE <<"W", "1">> IN
              /\ ~Catalogue_is_keymag_set(cats[o]) =>
                    /\ cats'[o].key_mag = FmtMag(band)
                    /\ cats'[o].key_magerr = FmtMagErr(band)
                    /\ last'.out # ""
              /\ Catalogue_is_keymag_set(cats[o]) =>
                    /\ cats'[o].key_mag = cats[o].key_mag
                    /\ cats'[o].key_magerr = cats[o].key_magerr
                    /\ cats'[o].lbda = cats[o].lbda
                    /\ last'.out = ""
              /\ Catalogue_is_keymag_set(cats'[o])
              /\ last'.exc # "NoMagKey"]_vars

C5_Witness ==
    /\ last.op = "mag" /\ last.out # "" /\ last.exc = ""
    /\ cats[1].cls = "WISE"
    /\ cats[1].key_mag = W1mag
    /\ Len(last.ret) = 1 /\ nobjects(cats[1]) = 2

\* C6: the classification arrays of a MASSCatalogue, starmask and
\* _objecttype, have as many entries as there are objects in the field of
\* view, and starmask is True for each of them.
C6_ClassArraysFovLength ==
    \A o \in DOMAIN cats :
        (cats[o].cls = "MASS" /\ last.obj = o
            /\ last.op \in {"starmask", "_objecttype"}) =>
            /\ Len(last.ret) = nobjects_in_fov(cats[o])
            /\ last.op = "starmask" => \A i \in 1..Len(last.ret) : last.ret[i] = TRUE

\* C7: set_mag_keys with the same arguments gives the same lbda whether it
\* is called before the data is created or after it.
C7_SameLbdaEitherOrder ==
    (/\ last.op = "set_mag_keys" /\ last.obj = 2 /\ last.exc = ""
     /\ cats[2].key_mag = cats[1].key_mag
     /\ cats[2].key_magerr = cats[1].key_magerr) =>
        cats[2].lbda = cats[1].lbda

C7_Witness ==
    /\ last.op = "set_mag_keys" /\ last.obj = 2 /\ last.exc = ""
    /\ cats[1].cls = "GAIA"
    /\ cats[2].key_mag = GaiaG /\ cats[1].key_mag = GaiaG
    /\ cats[1].has_data /\ cats[2].has_data
    /\ nobjects(cats[1]) # nobjects(cats[2])
    /\ cats[1].lbda = NumLbda(6730)

\* C8: once the magnitude keys of a catalogue are set to values that are not
\* None, no later set_mag_keys, read of mag or read of starmask changes the
\* key mappings or lbda.
C8_SchemaImmutable ==
    [][\A o \in DOMAIN cats :
          (/\ ~cats[o].key_mag.none /\ ~cats[o].key_magerr.none
           /\ \E op \in {"set_mag_keys", "mag", "starmask"} : Called(o, op)) =>
              Schema(cats'[o]) = Schema(cats[o])]_vars

\* C8 as amended: once the magnitude keys are set to values that are not
\* None, a read of mag or of starmask changes neither the key mappings nor
\* lbda (a later set_mag_keys does).
C8_ReadsKeepSchema ==
    [][\A o \in DOMAIN cats :
          (/\ ~cats[o].key_mag.none /\ ~cats[o].key_magerr.none
           /\ \E op \in {"mag", "starmask"} : Called(o, op)) =>
              Schema(cats'[o]) = Schema(cats[o])]_vars

C8_Witness ==
    /\ last.op = "mag" /\ last.exc = "" /\ last.out = ""
    /\ cats[1].cls = "MASS"
    /\ cats[1].key_mag = Hmag /\ cats[1].lbda = NumLbda(16620)

\* the effective wavelength C9 gives for a stored key_mag, if any
C9_Wavelength(cls, key_mag) ==
    IF key_mag.none THEN NoLbda
    ELSE IF cls = "GAIA" THEN (IF Contains(key_mag.s, "G") THEN NumLbda(6730) ELSE NoLbda)
    ELSE IF key_mag = Jmag THEN NumLbda(12350)
    ELSE IF key_mag = Hmag THEN NumLbda(16620)
    ELSE IF key_mag = Kmag THEN NumLbda(21590)
    ELSE NoLbda

\* C9: after set_mag_keys calls and mag reads on a GAIACatalogue or a
\* MASSCatalogue, an lbda that has been assigned is the effective wavelength
\* of the key_mag now stored, never one left over from an earlier key.
C9_LbdaNeverStale ==
    \A o \in DOMAIN cats :
        (/\ cats[o].cls \in {"GAIA", "MASS"}
         /\ last.op \in {"set_mag_keys", "mag"} /\ last.obj = o
         /\ cats[o].lbda # NoLbda) =>
            cats[o].lbda = C9_Wavelength(cats[o].cls, cats[o].key_mag)

\* C10: when MASSCatalogue.set_mag_keys raises ValueError, key_mag,
\* key_magerr and lbda are those the catalogue had before the call.
C10_FailedSetChangesNothing ==
    [][\A o \in DOMAIN cats :
          (Called(o, "set_mag_keys") /\ cats[o].cls = "MASS"
              /\ last'.exc = "ValueError") =>
              /\ cats'[o].key_mag = cats[o].key_mag
              /\ cats'[o].key_magerr = cats[o].key_magerr
              /\ cats'[o].lbda = cats[o].lbda]_vars

=============================================================================
